---- MODULE Spec2Model ----
(***************************************************************************)
(* Model of the connection lifecycle of polymarket-websocket-client:       *)
(* BaseWebSocketClient (src/src/base-client.ts) specialised by             *)
(* ClobMarketClient (src/src/clob-client.ts), on top of TypedEventEmitter  *)
(* (src/src/event-emitter.ts), and of TypedEventEmitter by itself.         *)
(*                                                                         *)
(* Every handler of the client runs to completion on one event loop, so    *)
(* each handler is one action.  A handler is written as an operator from   *)
(* the client record before the handler to the client record after it;     *)
(* listeners registered by the application run synchronously inside emit   *)
(* and may call back into the public API, which is modelled by the `hook'  *)
(* field: the reaction of the registered listener to one kind of event.    *)
(***************************************************************************)
EXTENDS Integers, Sequences, FiniteSets, TLC

\* ---------------------------------------------------------------- bounds
MaxLive == 2              \* transports alive at the same time
MaxLeaked == 1            \* pending reconnect timers the client lost track of
MaxArgs == 2              \* length of a subscribe/unsubscribe argument array
MaxReact == 1             \* listener re-entries per handler
MaxListeners == 3         \* listeners registered for the event at a time
MaxOnce == 1              \* once() registrations over the emitter's lifetime
MaxDepth == 2             \* emit calls in progress at the same time
MaxCalls == 2             \* invocations counted per once() registration
MaxCallbacks == 2         \* callbacks registered for one event type
MaxAttempt == 8           \* attempt numbers the reconnect delay is computed for

\* ------------------------------------------------------- program constants
Infinity == 1000          \* DEFAULTS.maxReconnectAttempts (never reached)

States == {"disconnected", "connecting", "connected", "reconnecting"}

Ids == {"a", "b"}         \* well-formed asset ids
Blank == " "              \* a string whose trim() is empty
NonString == "#42"        \* stands for a value whose typeof is not 'string'

TransportIds == 1..MaxLive

VARIABLES
  state,                  \* this.state
  ws,                     \* this.ws: transport id, 0 for null
  sock,                   \* the transports constructed so far
  reconnectAttempts,      \* this.reconnectAttempts
  reconnectTimer,         \* the timer this.reconnectTimer refers to is pending
  leakedReconnectTimers,  \* pending reconnect timers the field lost track of
  connectionTimer,        \* the attempt whose pending timeout
                          \* this.connectionTimer refers to, 0 for none
  connectionTimers,       \* attempts whose connection timeout is pending
  heartbeatTimer,         \* this.heartbeatTimer is armed
  isIntentionalClose,     \* this.isIntentionalClose
  assetIds,               \* ClobMarketClient.assetIds, in insertion order
  eventCallbacks,         \* this.eventCallbacks: the callbacks registered for
                          \* each event type, in insertion order
  options,                \* this.options
  stopped,                \* history: the state in which disconnect() was last
                          \* called ("connected" or "other"), "no" once
                          \* connect() has been called since
  everConnected,          \* history: a transport of this client has opened
  reconnects,             \* history: transports constructed by reconnect
                          \* timers since the last open, connect() or
                          \* disconnect()
  backoff,                \* the reconnect delay by itself: the two delay
                          \* options, the attempt number, the jitter drawn
                          \* and the delay computed from them
  em,                     \* TypedEventEmitter by itself: the listeners of
                          \* one event and the history of its once() calls
  scope                   \* what the application does (the ids it subscribes
                          \* to, the API calls its listeners make) and which
                          \* of the histories are recorded

vars == <<state, ws, sock, reconnectAttempts, reconnectTimer,
          leakedReconnectTimers, connectionTimer, connectionTimers,
          heartbeatTimer, isIntentionalClose, assetIds, eventCallbacks,
          options, stopped, everConnected, reconnects, backoff, em,
          scope>>

\* a history is recorded only where it is looked at
Recorded(h) == h \in scope.history

\* ------------------------------------------------------------- transports
\* readyState and handlers of a transport, how many ledger replays it
\* accepted ("none", "once" or "many"), the promise of its attempt, and
\* whether a reconnect timer constructed it
NoSock == [readyState |-> "CLOSED", attached |-> FALSE, replays |-> "none",
           promise |-> "none", auto |-> FALSE]

NewSock == [readyState |-> "CONNECTING", attached |-> TRUE, replays |-> "none",
            promise |-> "pending", auto |-> FALSE]

OneMore(n) == IF n = "none" THEN "once" ELSE "many"

\* a transport that can no longer reach the client: its close event was
\* delivered, or cleanup() removed its handlers
Dead(t, rs) == [t EXCEPT !.readyState = rs, !.replays = "none",
                         !.promise = "none", !.auto = FALSE]

\* transports without handlers, and closed ones the client no longer holds,
\* are indistinguishable from here on
Forget(sk, held) ==
  [w \in TransportIds |->
     IF \/ sk[w].readyState \in {"CLOSING", "CLOSED"} /\ ~sk[w].attached
        \/ sk[w].readyState = "CLOSED" /\ w # held
     THEN NoSock ELSE sk[w]]

\* WebSocket.close(): CONNECTING and OPEN start the closing handshake
SockClose(t) ==
  IF t.readyState \in {"CONNECTING", "OPEN"}
  THEN [t EXCEPT !.readyState = "CLOSING"]
  ELSE t

\* ------------------------------------------------------------------ events
NoHook == [on |-> "none", st |-> "", do |-> "none", arg |-> "", fuel |-> 0]

Ev(name) == [name |-> name, state |-> "", prev |-> "", attempt |-> 0, msg |-> ""]

StateChangeEv(new, old) == [Ev("stateChange") EXCEPT !.state = new, !.prev = old]

ReconnectingEv(n) == [Ev("reconnecting") EXCEPT !.attempt = n]

ErrorEv(m) == [Ev("error") EXCEPT !.msg = m]

RawMessageEv(text) == [Ev("rawMessage") EXCEPT !.msg = text]

\* the event types the application registers callbacks for
EventTypes == {"book", "message"}

NoCallbacks == [t \in EventTypes |-> <<>>]

\* The client as one record; handlers are operators on it.
Client ==
  [state |-> state, ws |-> ws, sock |-> sock,
   reconnectAttempts |-> reconnectAttempts,
   reconnectTimer |-> reconnectTimer,
   leakedReconnectTimers |-> leakedReconnectTimers,
   connectionTimer |-> connectionTimer,
   connectionTimers |-> connectionTimers,
   heartbeatTimer |-> heartbeatTimer,
   isIntentionalClose |-> isIntentionalClose,
   assetIds |-> assetIds,
   eventCallbacks |-> eventCallbacks,
   stopped |-> stopped, everConnected |-> everConnected,
   reconnects |-> reconnects,
   sent |-> <<>>, emitted |-> <<>>, heard |-> <<>>, fired |-> <<>>,
   received |-> <<>>,
   log |-> <<>>,
   hook |-> NoHook,
   constructed |-> 0, exc |-> "none", rejected |-> FALSE, overflow |-> FALSE]


\* ------------------------------------------------------------ small helpers
\* the steps a handler takes, in order
Step(name, arg) == [step |-> name, arg |-> arg]

Log(c, name, arg) == [c EXCEPT !.log = Append(@, Step(name, arg))]

Range(q) == {q[i] : i \in 1..Len(q)}

SeqsUpTo(S, n) == UNION {[1..k -> S] : k \in 0..n}

RECURSIVE AddAll(_, _)
\* Set.prototype.add for each element of items, keeping insertion order
AddAll(set, items) ==
  IF items = <<>> THEN set
  ELSE AddAll(IF Head(items) \in Range(set) THEN set ELSE Append(set, Head(items)),
              Tail(items))

\* Set.prototype.delete for each element of items
DeleteAll(set, items) == SelectSeq(set, LAMBDA x : x \notin Range(items))

\* typeof id !== 'string' || id.trim() === ''
Trim(v) == IF v = Blank THEN "" ELSE v

InvalidId(v) == v = NonString \/ Trim(v) = ""

\* ------------------------------------------------------------ wire messages
StringData(text) == [kind |-> "string", text |-> text, ids |-> <<>>]

ObjectData(type, ids) == [kind |-> type, text |-> "", ids |-> ids]

\* typeof data === 'string' ? data : JSON.stringify(data)
Serialize(data) == [json |-> data.kind # "string", body |-> data]

\* ----------------------------------------------------------------- send()
\* send() that only checks for a transport handle
SendWhenHeld(c, data) ==
  IF c.ws = 0
  THEN [c EXCEPT !.exc = "NotConnected"]
  ELSE LET t == c.sock[c.ws] IN
       CASE t.readyState = "CONNECTING" -> [c EXCEPT !.exc = "InvalidState"]
         [] t.readyState = "OPEN" ->
              [c EXCEPT !.sent = Append(@, [w |-> c.ws, msg |-> Serialize(data)]),
                        !.sock[c.ws].replays =
                           IF data.kind = "MARKET" THEN OneMore(@) ELSE @]
         [] OTHER -> c

\* BaseWebSocketClient.send followed by WebSocket.send of the transport
Send(c, data) ==
  IF c.ws = 0 \/ c.state # "connected"
  THEN [c EXCEPT !.exc = "NotConnected"]
  ELSE LET t == c.sock[c.ws] IN
       CASE t.readyState = "CONNECTING" -> [c EXCEPT !.exc = "InvalidState"]
         [] t.readyState = "OPEN" ->
              [Log(c, "send", data.kind)
                 EXCEPT !.sent = Append(@, [w |-> c.ws, msg |-> Serialize(data)]),
                        !.sock[c.ws].replays =
                           IF data.kind = "MARKET" THEN OneMore(@) ELSE @]
         [] OTHER -> Log(c, "send", data.kind)

\* ------------------------------------------------- ClobMarketClient ledger
SendSubscription(c, ids) == Send(c, ObjectData("subscribe", ids))

SendUnsubscription(c, ids) == Send(c, ObjectData("unsubscribe", ids))

\* subscribe() that validates each id only when it comes to add it
SubscribeCheckingAsItGoes(c, arg) ==
  IF ~arg.isArray THEN [c EXCEPT !.exc = "TypeError"]
  ELSE LET bad == {i \in 1..Len(arg.items) : InvalidId(arg.items[i])}
           upTo == IF bad = {} THEN Len(arg.items)
                   ELSE (CHOOSE i \in bad : \A j \in bad : i <= j) - 1
           newAssets == SelectSeq(SubSeq(arg.items, 1, upTo),
                                  LAMBDA id : id \notin Range(c.assetIds))
           c1 == [c EXCEPT !.assetIds = AddAll(@, newAssets),
                           !.exc = IF bad = {} THEN @ ELSE "TypeError"]
       IN IF newAssets = <<>> \/ bad # {} THEN c1
          ELSE IF c1.state = "connected" THEN SendSubscription(c1, newAssets)
          ELSE c1

Subscribe(c, arg) ==
  IF ~arg.isArray THEN [c EXCEPT !.exc = "TypeError"]
  ELSE IF \E i \in 1..Len(arg.items) : InvalidId(arg.items[i])
  THEN [c EXCEPT !.exc = "TypeError"]
  ELSE LET newAssets == SelectSeq(arg.items, LAMBDA id : id \notin Range(c.assetIds))
           c1 == [c EXCEPT !.assetIds = AddAll(@, newAssets)]
       IN IF newAssets = <<>> THEN c
          ELSE IF c1.state = "connected" THEN SendSubscription(c1, newAssets)
          ELSE c1

Unsubscribe(c, arg) ==
  IF ~arg.isArray THEN [c EXCEPT !.exc = "TypeError"]
  ELSE IF \E i \in 1..Len(arg.items) : InvalidId(arg.items[i])
  THEN [c EXCEPT !.exc = "TypeError"]
  ELSE LET existingAssets == SelectSeq(arg.items, LAMBDA id : id \in Range(c.assetIds))
           c1 == [c EXCEPT !.assetIds = DeleteAll(@, existingAssets)]
       IN IF existingAssets = <<>> THEN c
          ELSE IF c1.state = "connected" THEN SendUnsubscription(c1, existingAssets)
          ELSE c1

\* replay of the ledger on every open
OnConnected(c) ==
  IF Len(c.assetIds) > 0 THEN Send(c, ObjectData("MARKET", c.assetIds)) ELSE c

\* --------------------------------------------------- ClobUserClient ledger
\* the ledger field is marketIds there; the message carries the credentials
SendFullSubscription(c) == Send(c, ObjectData("USER", c.assetIds))

UserSubscribe(c, arg) ==
  IF ~arg.isArray THEN [c EXCEPT !.exc = "TypeError"]
  ELSE IF \E i \in 1..Len(arg.items) : InvalidId(arg.items[i])
  THEN [c EXCEPT !.exc = "TypeError"]
  ELSE LET newMarkets == SelectSeq(arg.items, LAMBDA id : id \notin Range(c.assetIds))
           c1 == [c EXCEPT !.assetIds = AddAll(@, newMarkets)]
       IN IF newMarkets = <<>> THEN c
          ELSE IF c1.state = "connected" THEN SendFullSubscription(c1)
          ELSE c1

UserUnsubscribe(c, arg) ==
  IF ~arg.isArray THEN [c EXCEPT !.exc = "TypeError"]
  ELSE IF \E i \in 1..Len(arg.items) : InvalidId(arg.items[i])
  THEN [c EXCEPT !.exc = "TypeError"]
  ELSE LET c1 == [c EXCEPT !.assetIds = DeleteAll(@, arg.items)]
       IN IF c1.state = "connected" THEN SendFullSubscription(c1) ELSE c1

UserOnConnected(c) == SendFullSubscription(c)

\* the methods of the class the application constructed
ThisSubscribe(c, arg) ==
  IF scope.client = "ClobUserClient" THEN UserSubscribe(c, arg)
  ELSE Subscribe(c, arg)

ThisUnsubscribe(c, arg) ==
  IF scope.client = "ClobUserClient" THEN UserUnsubscribe(c, arg)
  ELSE Unsubscribe(c, arg)

ThisOnConnected(c) ==
  IF scope.client = "ClobUserClient" THEN UserOnConnected(c)
  ELSE OnConnected(c)

OnCleanup(c) == [c EXCEPT !.assetIds = <<>>, !.eventCallbacks = NoCallbacks]

\* ------------------------------------------------------------------ timers
ClearConnectionTimeout(c0) ==
  LET c == Log(c0, "clearConnectionTimeout", "")
  IN IF c.connectionTimer # 0
     THEN [c EXCEPT !.connectionTimers = @ \ {c.connectionTimer},
                    !.connectionTimer = 0]
     ELSE c

StopHeartbeat(c) == [c EXCEPT !.heartbeatTimer = FALSE]

StartHeartbeat(c) ==
  [StopHeartbeat(Log(c, "startHeartbeat", "")) EXCEPT !.heartbeatTimer = TRUE]

\* try { this.send('ping') } catch { }
SendHeartbeat(c) == [Send(c, StringData("ping")) EXCEPT !.exc = "none"]

\* --------------------------------------------------- the re-entrant core
RECURSIVE Emit(_, _), React(_), SetState(_, _), Cleanup(_), Disconnect(_)

\* TypedEventEmitter.emit: the registered listener runs synchronously and
\* whatever it throws is caught and logged; a listener registered after it,
\* which only records what it receives (`heard'), is called next
Emit(c, e) ==
  LET c1 == [Log(c, "emit", e.name) EXCEPT !.emitted = Append(@, e)]
      hit == /\ c1.hook.fuel > 0
             /\ c1.hook.on = e.name
             /\ (e.name = "stateChange" => c1.hook.st = e.state)
      c2 == IF hit
            THEN [React([c1 EXCEPT !.hook.fuel = @ - 1,
                                   !.fired = Append(@, c1.hook.do)])
                    EXCEPT !.exc = "none"]
            ELSE c1
  IN [c2 EXCEPT !.heard = Append(@, e)]

\* what the listener does: a call of the public API
React(c) ==
  CASE c.hook.do = "disconnect" -> Disconnect(c)
    [] c.hook.do = "subscribe" ->
         Subscribe(c, [isArray |-> TRUE, items |-> <<c.hook.arg>>])
    [] OTHER -> c

\* setState() that publishes also when the state stays the same
SetStateAlways(c0, newState) ==
  LET c == Log(c0, "setState", newState)
  IN Emit([c EXCEPT !.state = newState], StateChangeEv(newState, c.state))

SetState(c0, newState) ==
  LET c == Log(c0, "setState", newState)
  IN IF c.state # newState
     THEN Emit([c EXCEPT !.state = newState], StateChangeEv(newState, c.state))
     ELSE c

Cleanup(c) ==
  LET c1 == StopHeartbeat(ClearConnectionTimeout(c))
      c2 == [c1 EXCEPT !.reconnectTimer = FALSE]
      c3 == IF c2.ws # 0
            THEN [c2 EXCEPT !.sock[c2.ws] =
                               [Dead(@, SockClose(@).readyState)
                                  EXCEPT !.attached = FALSE],
                            !.ws = 0]
            ELSE c2
  IN OnCleanup([c3 EXCEPT !.reconnectAttempts = 0])

Disconnect(c) ==
  LET c1 == [c EXCEPT !.stopped = IF ~Recorded("stopped") THEN @
                                  ELSE IF c.state = "connected" THEN "connected"
                                  ELSE IF @ = "no" THEN "other" ELSE @,
                      !.reconnects = 0]
  IN SetState(Cleanup([c1 EXCEPT !.isIntentionalClose = TRUE]), "disconnected")

\* the transport (and timeout) slots a new attempt may take: the transport
\* the client is about to drop no longer counts as held
FreeSlots(c) ==
  {w \in TransportIds : Forget(c.sock, 0)[w] = NoSock /\ w \notin c.connectionTimers}

CreateConnection(c, throws) ==
  LET c1 == SetState(c, "connecting")
      free == FreeSlots(c1)
      id == CHOOSE w \in free : \A v \in free : w <= v
  IN IF throws
     THEN [Emit(ClearConnectionTimeout(c1), ErrorEv("construct"))
             EXCEPT !.rejected = TRUE]
     ELSE IF free = {} THEN [c1 EXCEPT !.overflow = TRUE]
     ELSE [c1 EXCEPT !.sock = [Forget(c1.sock, 0) EXCEPT ![id] = NewSock],
                     !.ws = id,
                     !.connectionTimer = id,
                     !.connectionTimers = @ \cup {id},
                     !.constructed = @ + 1]

\* connect() that only checks for `connected'
ConnectWhileConnecting(c0, throws) ==
  LET c == [c0 EXCEPT !.stopped = "no", !.reconnects = 0]
  IN IF c.state = "connected"
     THEN c
     ELSE CreateConnection([c EXCEPT !.isIntentionalClose = FALSE], throws)

Connect(c0, throws) ==
  LET c == [c0 EXCEPT !.stopped = "no", !.reconnects = 0]
  IN IF c.state = "connected" \/ c.state = "connecting"
     THEN c
     ELSE CreateConnection([c EXCEPT !.isIntentionalClose = FALSE], throws)

HandleError(c, msg) == Emit(c, ErrorEv(msg))

\* scheduleReconnect() that numbers the attempts from 0
ScheduleZeroBased(c) ==
  IF c.reconnectAttempts >= options.maxReconnectAttempts
  THEN HandleError(SetState(c, "disconnected"), "maxRetries")
  ELSE LET c1 == SetState(c, "reconnecting")
           c3 == Emit(c1, ReconnectingEv(c1.reconnectAttempts))
           c4 == [c3 EXCEPT !.reconnectAttempts = @ + 1]
       IN [c4 EXCEPT !.leakedReconnectTimers =
                        IF c4.reconnectTimer THEN @ + 1 ELSE @,
                     !.reconnectTimer = TRUE]

\* scheduleReconnect() that allows one attempt too many
ScheduleOneTooMany(c) ==
  IF c.reconnectAttempts > options.maxReconnectAttempts
  THEN HandleError(SetState(c, "disconnected"), "maxRetries")
  ELSE LET c1 == SetState(c, "reconnecting")
           c2 == [c1 EXCEPT !.reconnectAttempts = @ + 1]
           c3 == Emit(c2, ReconnectingEv(c2.reconnectAttempts))
       IN [c3 EXCEPT !.leakedReconnectTimers =
                        IF c3.reconnectTimer THEN @ + 1 ELSE @,
                     !.reconnectTimer = TRUE]

\* scheduleReconnect() that tears the ledger down when it gives up
ScheduleGivingUpLedger(c) ==
  IF c.reconnectAttempts >= options.maxReconnectAttempts
  THEN HandleError(SetState(OnCleanup(c), "disconnected"), "maxRetries")
  ELSE LET c1 == SetState(c, "reconnecting")
           c2 == [c1 EXCEPT !.reconnectAttempts = @ + 1]
           c3 == Emit(c2, ReconnectingEv(c2.reconnectAttempts))
       IN [c3 EXCEPT !.leakedReconnectTimers =
                        IF c3.reconnectTimer THEN @ + 1 ELSE @,
                     !.reconnectTimer = TRUE]

ScheduleReconnect(c) ==
  IF c.reconnectAttempts >= options.maxReconnectAttempts
  THEN HandleError(SetState(c, "disconnected"), "maxRetries")
  ELSE LET c1 == SetState(c, "reconnecting")
           c2 == [c1 EXCEPT !.reconnectAttempts = @ + 1]
           c3 == Emit(c2, ReconnectingEv(c2.reconnectAttempts))
       IN [c3 EXCEPT !.leakedReconnectTimers =
                        IF c3.reconnectTimer THEN @ + 1 ELSE @,
                     !.reconnectTimer = TRUE]

\* ------------------------------------------------- transport event handlers
Resolve(c, w) ==
  [Log(c, "resolve", "")
     EXCEPT !.sock[w].promise = IF @ = "pending" THEN "resolved" ELSE @]

Reject(c, w) ==
  [Log(c, "reject", "")
     EXCEPT !.sock[w].promise = IF @ = "pending" THEN "rejected" ELSE @]

\* ws.onopen that leaves the retry counter as it is
OnOpenKeepingCount(c, w) ==
  LET c1 == [ClearConnectionTimeout(c) EXCEPT !.everConnected =
                                                 Recorded("everConnected"),
                                              !.reconnects = 0]
      c2 == StartHeartbeat(SetState(c1, "connected"))
      c3 == ThisOnConnected(c2)
  IN IF c3.exc # "none" THEN c3
     ELSE Resolve(Emit(c3, Ev("connected")), w)

\* ws.onopen of transport w
OnOpen(c, w) ==
  LET c1 == [Log(ClearConnectionTimeout(c), "resetAttempts", "")
                                         EXCEPT !.reconnectAttempts = 0,
                                              !.everConnected =
                                                 Recorded("everConnected"),
                                              !.reconnects = 0]
      c2 == StartHeartbeat(SetState(c1, "connected"))
      c3 == ThisOnConnected(c2)
  IN IF c3.exc # "none" THEN c3
     ELSE Resolve(Emit(c3, Ev("connected")), w)

\* ws.onclose that reconnects whatever autoReconnect says
OnCloseAlwaysRetrying(c, w) ==
  LET c1 == StopHeartbeat(ClearConnectionTimeout(c))
      c2 == Emit(c1, Ev("disconnected"))
  IN IF ~c2.isIntentionalClose
     THEN ScheduleReconnect(c2)
     ELSE SetState(c2, "disconnected")

\* ws.onclose that reconnects also after an intentional close
OnCloseIgnoringIntent(c, w) ==
  LET c1 == StopHeartbeat(ClearConnectionTimeout(c))
      c2 == Emit(c1, Ev("disconnected"))
  IN IF options.autoReconnect
     THEN ScheduleReconnect(c2)
     ELSE SetState(c2, "disconnected")

\* ws.onclose of transport w
OnClose(c, w) ==
  LET c1 == StopHeartbeat(ClearConnectionTimeout(c))
      c2 == Emit(c1, Ev("disconnected"))
  IN IF ~c2.isIntentionalClose /\ options.autoReconnect
     THEN ScheduleReconnect(c2)
     ELSE SetState(c2, "disconnected")

\* ws.onerror that gives the connection up
OnErrorGivingUp(c) ==
  SetState(StopHeartbeat(HandleError(c, "WebSocket error")), "disconnected")

\* ws.onerror
OnError(c) == HandleError(c, "WebSocket error")

\* a timeout callback that rejects without publishing the error
ConnectionTimeoutUnreported(c, t) ==
  LET c2 == IF c.ws # 0
            THEN [c EXCEPT !.sock[c.ws] = SockClose(@)]
            ELSE c
  IN Reject(c2, t)

\* the callback of the connection timeout armed for attempt t
ConnectionTimeout(c, t) ==
  LET c1 == HandleError(c, "timeout")
      c2 == IF c1.ws # 0
            THEN [c1 EXCEPT !.sock[c1.ws] = SockClose(@)]
            ELSE c1
  IN Reject(c2, t)

\* the callback of a reconnect timer; a rejection is swallowed
ReconnectTimeout(c, throws) ==
  LET c1 == CreateConnection(c, throws)
  IN IF c1.constructed > c.constructed
     THEN [c1 EXCEPT !.rejected = FALSE,
                     !.sock[c1.ws].auto = Recorded("auto"),
                     !.reconnects = IF Recorded("reconnects") THEN @ + 1 ELSE @]
     ELSE [c1 EXCEPT !.rejected = FALSE]

\* the callback of the heartbeat interval
HeartbeatTick(c) ==
  IF c.state = "connected" THEN SendHeartbeat(c) ELSE c

\* --------------------------------------------------------- inbound messages
\* decoded values: what matters of them is their type, whether they are
\* falsy and, for an object, its event_type ("" for none)
Value(type, eventType, text) ==
  [type |-> type, event_type |-> eventType, text |-> text]

BookText == "{\"event_type\":\"book\"}"

\* the texts a transport delivers: an event object, an array, a number,
\* null, a quoted string, and two texts that are not JSON
Texts == {BookText, "[]", "42", "null", "\"hi\"", "plain text", ""}

\* JSON.parse on these texts: the value, or ok = FALSE where it throws
JsonParse(text) ==
  CASE text = BookText -> [ok |-> TRUE, value |-> Value("object", "book", "")]
    [] text = "[]" -> [ok |-> TRUE, value |-> Value("object", "", "")]
    [] text = "42" -> [ok |-> TRUE, value |-> Value("number", "", "42")]
    [] text = "null" -> [ok |-> TRUE, value |-> Value("null", "", "")]
    [] text = "\"hi\"" -> [ok |-> TRUE, value |-> Value("string", "", "hi")]
    [] OTHER -> [ok |-> FALSE, value |-> Value("undefined", "", "")]

\* what a registered callback does when it is called
CallbackKinds ==
  {"quiet", "throws"}
    \cup {"disconnects" : x \in scope.listeners \cap {"disconnect"}}

\* addEventCallback(event, callback)
AddEventCallback(c, event, cb) ==
  [c EXCEPT !.eventCallbacks[event] = Append(@, cb)]

\* the function addEventCallback returned, for the i-th callback of event
RemoveEventCallback(c, event, i) ==
  [c EXCEPT !.eventCallbacks[event] =
              SubSeq(@, 1, i - 1) \o SubSeq(@, i + 1, Len(@))]

\* one callback called by emitEventCallback
CallCallback(c, cb) ==
  LET c1 == Log(c, "callback", cb)
  IN CASE cb = "throws" -> [c1 EXCEPT !.exc = "callback"]
       [] cb = "disconnects" -> Disconnect(c1)
       [] OTHER -> c1

\* the loop of emitEventCallback over the Set it fetched, from the i-th
\* callback on: what a callback throws is handed to options.logger.error,
\* and what that throws leaves the loop
RECURSIVE CallEach(_, _, _)
CallEach(c, cbs, i) ==
  IF i > Len(cbs) THEN c
  ELSE LET c1 == CallCallback(c, cbs[i])
           c2 == IF c1.exc # "none"
                 THEN [Log(c1, "logger.error", "")
                         EXCEPT !.exc = IF options.logger = "throws"
                                        THEN "logger" ELSE "none"]
                 ELSE c1
       IN IF c2.exc # "none" THEN c2 ELSE CallEach(c2, cbs, i + 1)

\* emitEventCallback(event, data)
EmitEventCallback(c, event) ==
  IF event \in EventTypes THEN CallEach(c, c.eventCallbacks[event], 1) ELSE c

\* ClobMarketClient.handleParsedMessage and ClobUserClient.handleParsedMessage
HandleParsedMessage(c0, data) ==
  LET c == [Log(c0, "handleParsedMessage", data.type)
              EXCEPT !.received = Append(@, data)]
      falsy == \/ data.type \in {"null", "undefined"}
               \/ data.type = "string" /\ data.text = ""
               \/ data.type = "number" /\ data.text = "0"
  IN IF falsy \/ data.type # "object" THEN c
     ELSE LET c1 == EmitEventCallback(c, data.event_type)
          IN IF c1.exc # "none" THEN c1
             ELSE EmitEventCallback(c1, "message")

\* handleIncomingMessage that gives up on a text that does not decode
HandleIncomingMessageDropping(c, text) ==
  LET c1 == Emit(c, RawMessageEv(text))
      parsed == JsonParse(text)
  IN IF parsed.ok THEN HandleParsedMessage(c1, parsed.value) ELSE c1

\* handleIncomingMessage: the try block holds both JSON.parse and the call
\* of the handler, so the catch block also runs when the handler throws
HandleIncomingMessage(c, text) ==
  LET c1 == Emit(c, RawMessageEv(text))
      parsed == JsonParse(text)
  IN IF parsed.ok
     THEN LET c2 == HandleParsedMessage(c1, parsed.value)
          IN IF c2.exc # "none"
             THEN HandleParsedMessage([c2 EXCEPT !.exc = "none"],
                                      Value("string", "", text))
             ELSE c2
     ELSE HandleParsedMessage(c1, Value("string", "", text))

\* ------------------------------------------------------------ listeners
StateChangeTo(S) == {[on |-> "stateChange", st |-> x] : x \in S}

On(N) == {[on |-> n, st |-> ""] : n \in N}

Reactions ==
  {[do |-> "disconnect", arg |-> ""] : x \in scope.listeners \cap {"disconnect"}}
    \cup {[do |-> "subscribe", arg |-> i] :
            i \in {j \in scope.ids : "subscribe" \in scope.listeners}}

\* no listener, or one listener for one of the events a handler can publish
Hooks(triggers) ==
  {NoHook} \cup {[on |-> t.on, st |-> t.st, do |-> r.do, arg |-> r.arg,
                  fuel |-> MaxReact] : t \in triggers, r \in Reactions}

ConnectEvents == StateChangeTo({"connecting"}) \cup On({"error"})

DisconnectEvents == StateChangeTo({"disconnected"})

OpenEvents == StateChangeTo({"connected"}) \cup On({"connected"})

CloseEvents ==
  StateChangeTo({"reconnecting", "disconnected"})
    \cup On({"disconnected", "reconnecting", "error"})

ErrorEvents == On({"error"})

\* ---------------------------------------------------------------- actions
\* Slots are interchangeable: the state after a handler is stored with the
\* forgotten transports dropped and the slots in a fixed order (the held
\* transport first), which changes nothing the client can observe.
SlotKey(c, w) ==
  LET t == c.sock[w]
      rs == CASE t.readyState = "CLOSED" -> 0 [] t.readyState = "CONNECTING" -> 1
              [] t.readyState = "OPEN" -> 2 [] OTHER -> 3
      rp == CASE t.replays = "none" -> 0 [] t.replays = "once" -> 1 [] OTHER -> 2
      pr == CASE t.promise = "none" -> 0 [] t.promise = "pending" -> 1
              [] t.promise = "resolved" -> 2 [] OTHER -> 3
  IN ((((((IF c.ws = w THEN 1 ELSE 0) * 2
      + (IF t.attached THEN 1 ELSE 0)) * 4 + rs) * 4 + rp) * 4 + pr) * 2
      + (IF t.auto THEN 1 ELSE 0)) * 4
      + (IF w \in c.connectionTimers THEN 2 ELSE 0)
      + (IF c.connectionTimer = w THEN 1 ELSE 0)

Renumber(c, rank) ==
  [c EXCEPT !.sock = [i \in TransportIds |->
                        c.sock[CHOOSE w \in TransportIds : rank[w] = i]],
            !.ws = IF @ = 0 THEN 0 ELSE rank[@],
            !.connectionTimer = IF @ = 0 THEN 0 ELSE rank[@],
            !.connectionTimers = {rank[w] : w \in @}]

Rank(key) ==
  [w \in TransportIds |->
     1 + Cardinality({v \in TransportIds :
           key[v] > key[w] \/ (key[v] = key[w] /\ v < w)})]

\* the client with its slots in canonical order; the record, the keys and
\* the ranks are each bound once
Canon(c0) ==
  CHOOSE r \in UNION {UNION {{Renumber(c, rank) : rank \in {Rank(key)}} :
                               key \in {[w \in TransportIds |-> SlotKey(c, w)]}} :
                        c \in {[c0 EXCEPT !.sock = Forget(@, c0.ws)]}} : TRUE

Commit(c0) ==
  \E c \in {Canon(c0)} :
    /\ ~c.overflow
    /\ c.leakedReconnectTimers <= MaxLeaked
    /\ state' = c.state
    /\ ws' = c.ws
    /\ sock' = c.sock
    /\ reconnectAttempts' = c.reconnectAttempts
    /\ reconnectTimer' = c.reconnectTimer
    /\ leakedReconnectTimers' = c.leakedReconnectTimers
    /\ connectionTimer' = c.connectionTimer
    /\ connectionTimers' = c.connectionTimers
    /\ heartbeatTimer' = c.heartbeatTimer
    /\ isIntentionalClose' = c.isIntentionalClose
    /\ assetIds' = c.assetIds
    /\ eventCallbacks' = c.eventCallbacks
    /\ stopped' = c.stopped
    /\ everConnected' = c.everConnected
    /\ reconnects' = c.reconnects
    /\ UNCHANGED <<options, backoff, em, scope>>

Start(h) == [Client EXCEPT !.hook = h]

CallConnect ==
  \E h \in Hooks(ConnectEvents), throws \in BOOLEAN :
    /\ scope.patient => state # "reconnecting"
    /\ Commit(Connect(Start(h), throws))

CallDisconnect ==
  \E h \in Hooks(DisconnectEvents) : Commit(Disconnect(Start(h)))

\* the arguments the application passes: arrays of its ids and, where it
\* is careless, a non-array and arrays with blank or non-string elements
SubscribeArgs ==
  {[isArray |-> FALSE, items |-> <<>>] : x \in {TRUE} \cap {scope.malformed}}
    \cup {[isArray |-> TRUE, items |-> q] :
            q \in SeqsUpTo(scope.ids \cup (IF scope.malformed
                                           THEN {Blank, NonString} ELSE {}),
                           MaxArgs)}

CallSubscribe ==
  \E arg \in SubscribeArgs : Commit(ThisSubscribe(Client, arg))

CallUnsubscribe ==
  \E arg \in SubscribeArgs : Commit(ThisUnsubscribe(Client, arg))

SendData == {StringData("hello"), ObjectData("test", <<>>)}

CallSend ==
  \E data \in SendData : Commit(Send(Client, data))

\* transport w delivers its open event while its handlers are attached
CanOpen(w) == sock[w].readyState = "CONNECTING" /\ sock[w].attached

AfterOpen(w, h) == OnOpen([Start(h) EXCEPT !.sock[w].readyState = "OPEN"], w)

TransportOpen ==
  \E w \in TransportIds, h \in Hooks(OpenEvents) :
    /\ CanOpen(w)
    /\ Commit(AfterOpen(w, h))

\* transport w delivers its close event while its handlers are attached
CanClose(w) ==
  sock[w].readyState \in {"CONNECTING", "OPEN", "CLOSING"} /\ sock[w].attached

AfterClose(w, h) == OnClose([Start(h) EXCEPT !.sock[w] = Dead(@, "CLOSED")], w)

TransportClose ==
  \E w \in TransportIds, h \in Hooks(CloseEvents) :
    /\ CanClose(w)
    /\ Commit(AfterClose(w, h))

\* transport w delivers an error event while its handlers are attached
CanFail(w) == sock[w].readyState \in {"CONNECTING", "OPEN"} /\ sock[w].attached

AfterError(w, h) == OnError([Start(h) EXCEPT !.sock[w].readyState = "CLOSING"])

TransportError ==
  \E w \in TransportIds, h \in Hooks(ErrorEvents) :
    /\ CanFail(w)
    /\ Commit(AfterError(w, h))

\* the pending connection timeout t elapses
AfterConnectionTimer(t, h) ==
  ConnectionTimeout([Start(h) EXCEPT !.connectionTimers = @ \ {t},
                                     !.connectionTimer = IF @ = t THEN 0 ELSE @],
                    t)

ConnectionTimerFires ==
  \E t \in connectionTimers, h \in Hooks(ErrorEvents) :
    Commit(AfterConnectionTimer(t, h))

\* the pending reconnect timer the field refers to elapses
AfterReconnectTimer(h, throws) ==
  ReconnectTimeout([Start(h) EXCEPT !.reconnectTimer = FALSE], throws)

\* a pending reconnect timer the field lost track of elapses
AfterLeakedReconnectTimer(h, throws) ==
  ReconnectTimeout([Start(h) EXCEPT !.leakedReconnectTimers = @ - 1], throws)

ReconnectTimerFires ==
  \E h \in Hooks(ConnectEvents), throws \in BOOLEAN :
    \/ /\ reconnectTimer
       /\ Commit(AfterReconnectTimer(h, throws))
    \/ /\ leakedReconnectTimers > 0
       /\ Commit(AfterLeakedReconnectTimer(h, throws))

HeartbeatFires ==
  /\ heartbeatTimer
  /\ Commit(HeartbeatTick(Client))

\* transport w delivers a message while its handlers are attached
CanDeliver(w) == sock[w].readyState = "OPEN" /\ sock[w].attached

AfterMessage(w, text, h) == HandleIncomingMessage(Start(h), text)

TransportMessage ==
  \E w \in TransportIds, text \in Texts, h \in Hooks(On({"rawMessage"})) :
    /\ CanDeliver(w)
    /\ Commit(AfterMessage(w, text, h))

\* onBook(callback), onMarketMessage(callback) and the like
CallOnEvent ==
  \E event \in EventTypes, cb \in CallbackKinds :
    /\ Len(eventCallbacks[event]) < MaxCallbacks
    /\ Commit(AddEventCallback(Client, event, cb))

\* the unsubscribe function that onBook(callback) and the like returned
CallOffEvent ==
  \E event \in EventTypes :
    \E i \in 1..Len(eventCallbacks[event]) :
      Commit(RemoveEventCallback(Client, event, i))

\* ------------------------------------------- TypedEventEmitter by itself
\* The listeners of one event.  A listener is a callback the application
\* passed to on(), or the onceCallback that the k-th call of once() wrapped
\* around one; what a callback does when invoked is in its name.
Callbacks == {"quiet", "throws", "emits", "clears", "cancels", "adds", "drops"}

Entry(cb, k) == [cb |-> cb, once |-> k]

OnceIds == 1..MaxOnce

\* new Map(), and no once() call made yet
EmptyEmitter ==
  [listeners |-> <<>>,
   wrapped |-> [k \in OnceIds |-> ""],
   calls |-> [k \in OnceIds |-> 0],
   cancelled |-> [k \in OnceIds |-> FALSE],
   late |-> [k \in OnceIds |-> 0]]

\* The emitter as one record.  A Set is a sequence of slots in insertion
\* order, and delete leaves the slot in place, dead, so that an iteration
\* in progress skips it; the Map holds the index of the event's Set, 0 for
\* no entry.  A Set taken out of the Map stays in `sets' for the iterations
\* still running over it.
Emitter ==
  [sets |-> IF em.listeners = <<>> THEN <<>>
            ELSE <<[i \in 1..Len(em.listeners) |->
                      [e |-> em.listeners[i], live |-> TRUE]]>>,
   map |-> IF em.listeners = <<>> THEN 0 ELSE 1,
   wrapped |-> em.wrapped, calls |-> em.calls,
   cancelled |-> em.cancelled, late |-> em.late,
   invoked |-> <<>>, errors |-> 0, exc |-> "none", depth |-> 0]

Has(set, e) == \E i \in 1..Len(set) : set[i].live /\ set[i].e = e

\* on(event, callback)
EmitterOn(m, e) ==
  LET m1 == IF m.map = 0
            THEN [m EXCEPT !.sets = Append(@, <<>>), !.map = Len(m.sets) + 1]
            ELSE m
  IN IF Has(m1.sets[m1.map], e) THEN m1
     ELSE [m1 EXCEPT !.sets[m1.map] = Append(@, [e |-> e, live |-> TRUE])]

\* off(event, callback)
EmitterOff(m, e) ==
  IF m.map = 0 THEN m
  ELSE LET callbacks == [i \in 1..Len(m.sets[m.map]) |->
                           IF m.sets[m.map][i].e = e
                           THEN [m.sets[m.map][i] EXCEPT !.live = FALSE]
                           ELSE m.sets[m.map][i]]
       IN [m EXCEPT !.sets[m.map] = callbacks,
                    !.map = IF \E i \in 1..Len(callbacks) : callbacks[i].live
                            THEN @ ELSE 0]

\* once(event, callback), the k-th call of it
EmitterOnce(m, cb, k) == EmitterOn([m EXCEPT !.wrapped[k] = cb], Entry(cb, k))

\* the function once() returned for its k-th call
CancelOnce(m, k) ==
  IF m.wrapped[k] = "" THEN m
  ELSE [EmitterOff(m, Entry(m.wrapped[k], k)) EXCEPT !.cancelled[k] = TRUE]

\* removeAllListeners(event)
RemoveAllListeners(m) == [m EXCEPT !.map = 0]

RECURSIVE EmitterEmit(_), Iterate(_, _, _), IterateUncaught(_, _, _),
          Invoke(_, _), Run(_, _)

\* the callback's body
Run(m, cb) ==
  CASE cb = "throws" -> [m EXCEPT !.exc = "Error"]
    [] cb = "emits" -> IF m.depth < MaxDepth THEN EmitterEmit(m) ELSE m
    [] cb = "clears" -> RemoveAllListeners(m)
    [] cb = "cancels" -> CancelOnce(m, 1)
    [] cb = "adds" -> EmitterOn(m, Entry("quiet", 0))
    [] cb = "drops" -> EmitterOff(m, Entry("quiet", 0))
    [] OTHER -> m

\* callback(data) in emit: a onceCallback removes itself, then calls the
\* callback it wraps
Invoke(m, e) ==
  LET m1 == [m EXCEPT !.invoked = Append(@, e)]
  IN IF e.once = 0 THEN Run(m1, e.cb)
     ELSE Run([EmitterOff(m1, e)
                 EXCEPT !.calls[e.once] = @ + 1,
                        !.late[e.once] = IF m.cancelled[e.once] THEN 1 ELSE @],
              e.cb)

\* the loop of emit without its try/catch
IterateUncaught(m, s, i) ==
  IF i > Len(m.sets[s]) \/ m.exc # "none" THEN m
  ELSE IF ~m.sets[s][i].live THEN IterateUncaught(m, s, i + 1)
  ELSE IterateUncaught(Invoke(m, m.sets[s][i].e), s, i + 1)

\* for (const callback of callbacks) try { callback(data) } catch { log }
Iterate(m, s, i) ==
  IF i > Len(m.sets[s]) THEN m
  ELSE IF ~m.sets[s][i].live THEN Iterate(m, s, i + 1)
  ELSE LET m1 == Invoke(m, m.sets[s][i].e)
       IN Iterate([m1 EXCEPT !.errors = IF m1.exc # "none" THEN @ + 1 ELSE @,
                             !.exc = "none"],
                  s, i + 1)

\* emit(event, data)
EmitterEmit(m) ==
  IF m.map = 0 THEN m
  ELSE [Iterate([m EXCEPT !.depth = @ + 1], m.map, 1) EXCEPT !.depth = m.depth]

\* between two calls only the Set the Map holds matters
CommitEmitter(m) ==
  /\ em' = [listeners |->
              IF m.map = 0 THEN <<>>
              ELSE LET live == SelectSeq(m.sets[m.map], LAMBDA x : x.live)
                   IN [i \in 1..Len(live) |-> live[i].e],
            wrapped |-> m.wrapped, calls |-> m.calls,
            cancelled |-> m.cancelled, late |-> m.late]
  /\ UNCHANGED <<state, ws, sock, reconnectAttempts, reconnectTimer,
                 leakedReconnectTimers, connectionTimer, connectionTimers,
                 heartbeatTimer, isIntentionalClose, assetIds,
                 eventCallbacks, options, stopped, everConnected,
                 reconnects, backoff, scope>>

ListenerOn ==
  \E cb \in Callbacks :
    /\ Len(em.listeners) < MaxListeners
    /\ CommitEmitter(EmitterOn(Emitter, Entry(cb, 0)))

ListenerOnce ==
  \E cb \in Callbacks, k \in OnceIds :
    /\ Len(em.listeners) < MaxListeners
    /\ em.wrapped[k] = "" /\ \A j \in 1..(k - 1) : em.wrapped[j] # ""
    /\ CommitEmitter(EmitterOnce(Emitter, cb, k))

ListenerOff ==
  \E cb \in Callbacks : CommitEmitter(EmitterOff(Emitter, Entry(cb, 0)))

ListenerCancelOnce ==
  \E k \in OnceIds :
    /\ em.wrapped[k] # ""
    /\ CommitEmitter(CancelOnce(Emitter, k))

ListenersRemoveAll == CommitEmitter(RemoveAllListeners(Emitter))

PublishEvent ==
  /\ \A k \in OnceIds : em.calls[k] < MaxCalls
  /\ CommitEmitter(EmitterEmit(Emitter))

\* --------------------------------------------- the reconnect delay by itself
RECURSIVE Pow2(_)
Pow2(k) == IF k = 0 THEN 1 ELSE 2 * Pow2(k - 1)

\* the delay with the cap applied before the jitter is added
ReconnectDelayCappedFirst(reconnectDelay, maxReconnectDelay, n, jitter) ==
  LET base == reconnectDelay * Pow2(n - 1)
  IN (IF base <= maxReconnectDelay THEN base ELSE maxReconnectDelay) + jitter

\* the delay scheduleReconnect computes for attempt n, in milliseconds
ReconnectDelay(reconnectDelay, maxReconnectDelay, n, jitter) ==
  LET sum == reconnectDelay * Pow2(n - 1) + jitter
  IN IF sum <= maxReconnectDelay THEN sum ELSE maxReconnectDelay

\* Math.random() * 1000, to the millisecond: the ends and two in between
Jitters == {0, 1, 500, 999}

\* no delay computed yet, under the two delay options
Backoff(reconnectDelay, maxReconnectDelay) ==
  [reconnectDelay |-> reconnectDelay, maxReconnectDelay |-> maxReconnectDelay,
   attempt |-> 0, jitter |-> 0, delay |-> 0]

\* the delay options: the defaults, and other values
Backoffs ==
  {Backoff(o[1], o[2]) :
     o \in {<<1000, 30000>>, <<10, 30000>>, <<10, 100>>, <<2000, 60000>>,
            <<3000, 2000>>}}

\* the part of scheduleReconnect that counts the attempt and computes the
\* delay of its timer
ComputeDelay ==
  \E jitter \in Jitters :
    /\ backoff.attempt < MaxAttempt
    /\ backoff' = [backoff EXCEPT
                     !.attempt = @ + 1,
                     !.jitter = jitter,
                     !.delay = ReconnectDelay(backoff.reconnectDelay,
                                              backoff.maxReconnectDelay,
                                              backoff.attempt + 1, jitter)]
    /\ UNCHANGED <<state, ws, sock, reconnectAttempts, reconnectTimer,
                   leakedReconnectTimers, connectionTimer, connectionTimers,
                   heartbeatTimer, isIntentionalClose, assetIds,
                   eventCallbacks, options, stopped, everConnected,
                   reconnects, em, scope>>

\* the configurations explored: auto-reconnect switched off, and switched on
\* with a retry budget small enough to be used up
RetryBudgets == {1, 2}

\* options.logger is the default one, or one whose error() throws
OptionsChoices ==
  {[autoReconnect |-> o[1], maxReconnectAttempts |-> o[2], logger |-> l] :
     o \in {<<FALSE, Infinity>>} \cup {<<TRUE, n>> : n \in RetryBudgets},
     l \in {"quiet", "throws"}}

Constructed ==
  /\ state = "disconnected"
  /\ ws = 0
  /\ sock = [w \in TransportIds |-> NoSock]
  /\ reconnectAttempts = 0
  /\ reconnectTimer = FALSE
  /\ leakedReconnectTimers = 0
  /\ connectionTimer = 0
  /\ connectionTimers = {}
  /\ heartbeatTimer = FALSE
  /\ isIntentionalClose = FALSE
  /\ assetIds = <<>>
  /\ eventCallbacks = NoCallbacks
  /\ stopped = "no"
  /\ everConnected = FALSE
  /\ reconnects = 0
  /\ em = EmptyEmitter
  /\ options \in OptionsChoices

\* the connection lifecycle: one asset id, listeners that call disconnect()
Init ==
  /\ Constructed
  /\ backoff = Backoff(1000, 30000)
  /\ options.logger = "quiet"
  /\ scope = [client |-> "ClobMarketClient",
              ids |-> {"a"}, listeners |-> {"disconnect"}, patient |-> FALSE,
              malformed |-> FALSE, history |-> {"stopped"}]

\* the subscription replay: two asset ids, listeners that call subscribe(),
\* one automatic retry
InitReplay ==
  /\ Constructed
  /\ backoff = Backoff(1000, 30000)
  /\ options.logger = "quiet"
  /\ options.autoReconnect
  /\ options.maxReconnectAttempts = 1
  /\ scope = [client |-> "ClobMarketClient",
              ids |-> Ids, listeners |-> {"subscribe"}, patient |-> FALSE,
              malformed |-> FALSE, history |-> {"auto", "everConnected"}]

\* the retry cycle left alone: listeners only observe, and the application
\* calls connect() only when no reconnect is scheduled; its subscribe and
\* unsubscribe arguments may be malformed
InitRetry ==
  /\ Constructed
  /\ backoff = Backoff(1000, 30000)
  /\ options.logger = "quiet"
  /\ options.autoReconnect
  /\ scope = [client |-> "ClobMarketClient",
              ids |-> Ids, listeners |-> {}, patient |-> TRUE,
              malformed |-> TRUE, history |-> {"reconnects"}]

\* the user channel: a ClobUserClient, two market ids, listeners only
\* observe, connect() called only when no reconnect is scheduled
InitUser ==
  /\ Constructed
  /\ backoff = Backoff(1000, 30000)
  /\ options.logger = "quiet"
  /\ scope = [client |-> "ClobUserClient",
              ids |-> Ids, listeners |-> {}, patient |-> TRUE,
              malformed |-> FALSE, history |-> {}]

Next ==
  \/ CallConnect
  \/ CallDisconnect
  \/ CallSubscribe
  \/ CallUnsubscribe
  \/ CallSend
  \/ TransportOpen
  \/ TransportClose
  \/ TransportError
  \/ ConnectionTimerFires
  \/ ReconnectTimerFires
  \/ HeartbeatFires
  \/ TransportMessage

Spec == Init /\ [][Next]_vars

SpecReplay == InitReplay /\ [][Next]_vars

SpecRetry == InitRetry /\ [][Next]_vars

SpecUser == InitUser /\ [][Next]_vars

\* inbound messages: the application registers callbacks for event types
\* and the transport delivers texts; listeners and callbacks may call
\* disconnect(); no automatic reconnect
InitInbound ==
  /\ Constructed
  /\ backoff = Backoff(1000, 30000)
  /\ ~options.autoReconnect
  /\ scope = [client |-> "ClobMarketClient",
              ids |-> {}, listeners |-> {"disconnect"}, patient |-> FALSE,
              malformed |-> FALSE, history |-> {}]

NextInbound ==
  \/ CallConnect
  \/ CallDisconnect
  \/ TransportOpen
  \/ TransportClose
  \/ TransportMessage
  \/ CallOnEvent
  \/ CallOffEvent

SpecInbound == InitInbound /\ [][NextInbound]_vars

\* the reconnect delay by itself: the client stays as constructed
InitDelay ==
  /\ Constructed
  /\ ~options.autoReconnect
  /\ backoff \in Backoffs
  /\ options.logger = "quiet"
  /\ scope = [client |-> "BaseWebSocketClient",
              ids |-> {}, listeners |-> {}, patient |-> TRUE,
              malformed |-> FALSE, history |-> {}]

SpecDelay == InitDelay /\ [][ComputeDelay]_vars

\* the emitter by itself: the client stays as constructed
InitEmitter ==
  /\ Constructed
  /\ backoff = Backoff(1000, 30000)
  /\ options.logger = "quiet"
  /\ ~options.autoReconnect
  /\ scope = [client |-> "TypedEventEmitter",
              ids |-> {}, listeners |-> {}, patient |-> TRUE,
              malformed |-> FALSE, history |-> {}]

NextEmitter ==
  \/ ListenerOn
  \/ ListenerOnce
  \/ ListenerOff
  \/ ListenerCancelOnce
  \/ ListenersRemoveAll
  \/ PublishEvent

SpecEmitter == InitEmitter /\ [][NextEmitter]_vars

TypeOK ==
  /\ state \in States
  /\ ws \in 0..MaxLive
  /\ reconnectTimer \in BOOLEAN
  /\ leakedReconnectTimers \in 0..MaxLeaked
  /\ connectionTimer \in 0..MaxLive
  /\ connectionTimers \subseteq TransportIds
  /\ heartbeatTimer \in BOOLEAN
  /\ isIntentionalClose \in BOOLEAN
  /\ stopped \in {"no", "connected", "other"}
  /\ everConnected \in BOOLEAN
  /\ reconnects \in Nat

\* ------------------------------------------------------------ properties
\* the pending timers of a client: the two the fields refer to, the
\* connection timeouts and reconnect delays they lost, and the heartbeat
Timers(c) ==
  [reconnect |-> c.reconnectTimer, lostReconnects |-> c.leakedReconnectTimers,
   connection |-> c.connectionTimer, connections |-> c.connectionTimers,
   heartbeat |-> c.heartbeatTimer]

NoTimers ==
  [reconnect |-> FALSE, lostReconnects |-> 0, connection |-> 0,
   connections |-> {}, heartbeat |-> FALSE]

\* C1: connect() called while the state is `connected' or `connecting'
\* returns without an error, constructs no transport, arms no timer,
\* publishes nothing and leaves the state and the transports as they were,
\* whatever the listeners and the transport constructor would have done.
C1_ConnectIsNoOp ==
  state \in {"connected", "connecting"} =>
    \A h \in Hooks(ConnectEvents), throws \in BOOLEAN :
      LET c == Connect(Start(h), throws)
      IN /\ c.exc = "none" /\ ~c.rejected
         /\ c.constructed = 0
         /\ c.emitted = <<>>
         /\ c.state = state
         /\ c.ws = ws /\ c.sock = sock
         /\ Timers(c) = Timers(Client)

C1_Witness ==
  /\ state = "connecting"
  /\ ws # 0 /\ sock[ws].readyState = "CONNECTING"
  /\ Connect(Client, FALSE).constructed = 0
  /\ Connect(Client, FALSE).state = "connecting"

\* C2: after disconnect() was called on a connected client, and for as long
\* as connect() is not called again, the state is never `reconnecting' or
\* `connecting' between two handlers (no reconnect attempt is under way).
C2_NoReconnectAfterDisconnect ==
  stopped = "connected" => state \notin {"reconnecting", "connecting"}

\* C3: whenever disconnect() returns, the state is `disconnected', the
\* intentional-close flag is set, no connection-timeout, reconnect-delay or
\* heartbeat timer is pending, the client holds no transport and the one
\* it held is closing or closed.
C3_DisconnectSettles ==
  \A h \in Hooks(DisconnectEvents) :
    LET c == Disconnect(Start(h))
    IN /\ c.state = "disconnected"
       /\ c.isIntentionalClose
       /\ Timers(c) = NoTimers
       /\ c.ws = 0
       /\ ws # 0 => c.sock[ws].readyState \in {"CLOSING", "CLOSED"}

\* C4: once disconnect() has been called (by the application or by a
\* listener inside a handler) and the handler has returned, no timer is
\* pending for as long as connect() is not called again.
C4_DisconnectCancelsEverything ==
  stopped # "no" => Timers(Client) = NoTimers

\* C5: send() called in a state other than `connected' throws the
\* not-connected error, hands nothing to a transport and changes nothing.
C5_SendNeedsConnected ==
  state # "connected" =>
    \A data \in SendData :
      LET c == Send(Client, data)
      IN /\ c.exc = "NotConnected"
         /\ c.sent = <<>>
         /\ [c EXCEPT !.exc = "none"] = Client

C5_Witness ==
  /\ state = "reconnecting"
  /\ ws # 0
  /\ Send(Client, StringData("hello")).exc = "NotConnected"

\* what a handler published, in order
Published(c, name) == SelectSeq(c.emitted, LAMBDA e : e.name = name)

Observing(triggers) == {h \in Hooks(triggers) : h.do # "disconnect"}

\* C7: when a transport closes with autoReconnect on, no disconnect() since
\* the last connect() and retries left, the state becomes `reconnecting',
\* one `reconnecting' event carries the new (1-based) attempt number and
\* the reconnect timer is armed; when that timer elapses one transport is
\* constructed and held; and when a transport opens the state becomes
\* `connected'.
C7_ReconnectCycle ==
  /\ \A w \in TransportIds, h \in Observing(CloseEvents) :
       /\ CanClose(w)
       /\ options.autoReconnect /\ ~isIntentionalClose
       /\ reconnectAttempts < options.maxReconnectAttempts
       => LET c == AfterClose(w, h)
          IN /\ c.state = "reconnecting"
             /\ c.reconnectAttempts = reconnectAttempts + 1
             /\ Published(c, "reconnecting")
                  = <<ReconnectingEv(reconnectAttempts + 1)>>
             /\ c.reconnectAttempts >= 1
             /\ c.reconnectTimer
  /\ \A h \in Observing(ConnectEvents) :
       reconnectTimer
       => LET c == AfterReconnectTimer(h, FALSE)
          IN c.overflow \/ (/\ c.constructed = 1
                            /\ c.ws # 0
                            /\ c.sock[c.ws].readyState = "CONNECTING"
                            /\ c.sock[c.ws].attached)
  /\ \A w \in TransportIds, h \in Observing(OpenEvents) :
       CanOpen(w) => AfterOpen(w, h).state = "connected"

C7_Witness ==
  /\ state = "reconnecting" /\ reconnectAttempts = 2
  /\ reconnectTimer /\ ~isIntentionalClose
  /\ AfterReconnectTimer(NoHook, FALSE).constructed = 1

\* C8: with autoReconnect off the state is never `reconnecting' and no
\* reconnect timer is ever pending (so only connect() constructs a
\* transport), and the close of the connected transport leaves the state
\* `disconnected' with nothing constructed.
C8_NoAutoReconnect ==
  ~options.autoReconnect =>
    /\ state # "reconnecting"
    /\ ~reconnectTimer /\ leakedReconnectTimers = 0
    /\ \A w \in TransportIds, h \in Hooks(CloseEvents) :
         CanClose(w) /\ state = "connected"
         => LET c == AfterClose(w, h)
            IN /\ c.state = "disconnected"
               /\ ~c.reconnectTimer /\ c.leakedReconnectTimers = 0
               /\ c.constructed = 0

C8_Witness ==
  /\ ~options.autoReconnect
  /\ state = "connected" /\ ws # 0 /\ CanClose(ws)
  /\ AfterClose(ws, NoHook).state = "disconnected"

\* what a handler handed to transport w, in order
SentOn(c, w) == SelectSeq(c.sent, LAMBDA m : m.w = w)

Replay(ids) == Serialize(ObjectData("MARKET", ids))

\* C9: a transport constructed by a reconnect timer receives, when it opens,
\* exactly one replay listing the ledger as it is, and never a second one.
C9_ReplayOnceOnReconnect ==
  \A w \in TransportIds :
    sock[w].auto =>
      /\ sock[w].replays # "many"
      /\ CanOpen(w) /\ assetIds # <<>>
         => LET c == AfterOpen(w, NoHook)
            IN SelectSeq(SentOn(c, w), LAMBDA m : m.msg.body.kind = "MARKET")
                 = <<[w |-> w, msg |-> Replay(assetIds)]>>

\* C10: when the first transport to open opens with a non-empty ledger, the
\* first message handed to it is the replay of that ledger, and it is the
\* only replay, whatever the listeners do.
C10_ReplayFirst ==
  \A w \in TransportIds, h \in Hooks(OpenEvents) :
    /\ ~everConnected
    /\ CanOpen(w) /\ w = ws /\ state = "connecting"
    /\ assetIds # <<>>
    => LET c == AfterOpen(w, h)
           replay == [w |-> w, msg |-> Replay(assetIds)]
       IN /\ SentOn(c, w) # <<>>
          /\ Head(SentOn(c, w)) = replay
          /\ SelectSeq(SentOn(c, w), LAMBDA m : m.msg.body.kind = "MARKET")
               = <<replay>>

\* the steps of a handler other than the publication of state changes
StepsOf(c) ==
  SelectSeq(c.log, LAMBDA s : ~(s.step = "emit" /\ s.arg = "stateChange"))

\* C11: on every transport open, with listeners that only observe, the
\* handler takes exactly these steps in this order: connection timeout
\* cancelled, retry counter reset, state set to `connected', heartbeat
\* started, replay handed to the transport (when the ledger is not empty),
\* `connected' published, connect() resolved.
C11_OpenSequence ==
  \A w \in TransportIds :
    CanOpen(w) =>
      StepsOf(AfterOpen(w, NoHook))
        = <<Step("clearConnectionTimeout", ""), Step("resetAttempts", ""),
            Step("setState", "connected"), Step("startHeartbeat", "")>>
          \o (IF assetIds # <<>> THEN <<Step("send", "MARKET")>> ELSE <<>>)
          \o <<Step("emit", "connected"), Step("resolve", "")>>

\* ws.onopen of transport w run on the client a call has left behind
OpenAfter(c, w) == OnOpen([c EXCEPT !.sock[w].readyState = "OPEN"], w)

\* C12: a subscribe call with well-formed ids made while the state is not
\* `connected' only adds the new ids to the ledger (nothing is sent, nothing
\* published, no transport constructed), and the next open of a transport
\* hands a replay listing the updated ledger to a transport.
C12_SubscribeWhileNotConnected ==
  \A arg \in SubscribeArgs :
    \A c \in {Subscribe(Client, arg)} :
      state # "connected" /\ c.exc = "none" =>
        /\ c = [Client EXCEPT !.assetIds = AddAll(assetIds, arg.items)]
        /\ \A w \in TransportIds :
             CanOpen(w) /\ c.assetIds # <<>> =>
               \E m \in Range(OpenAfter(c, w).sent) :
                 m.msg = Replay(c.assetIds)

\* the calls of the transport's send a handler made
SendSteps(c) == SelectSeq(c.log, LAMBDA s : s.step = "send")

\* C13: subscribe with well-formed ids while connected adds the ids that the
\* ledger lacks and hands the transport exactly one message, a direct
\* subscribe listing exactly those ids; when the ledger has them all the call
\* changes nothing and sends nothing.
C13_SubscribeSendsNewIds ==
  \A arg \in SubscribeArgs :
    \A c \in {Subscribe(Client, arg)} :
      /\ state = "connected"
      /\ arg.isArray /\ \A i \in 1..Len(arg.items) : ~InvalidId(arg.items[i])
      => IF Range(arg.items) \subseteq Range(assetIds)
         THEN c = Client
         ELSE /\ c.exc = "none"
              /\ c.assetIds = AddAll(assetIds, arg.items)
              /\ SendSteps(c) = <<Step("send", "subscribe")>>
              /\ Len(c.sent) = (IF sock[ws].readyState = "OPEN" THEN 1 ELSE 0)
              /\ \A m \in Range(c.sent) :
                   /\ m.w = ws
                   /\ m.msg.json /\ m.msg.body.kind = "subscribe"
                   /\ Range(m.msg.body.ids) = Range(arg.items) \ Range(assetIds)

\* C14: an unsubscribe whose ids are all absent from the ledger changes
\* nothing and hands nothing to the transport, whatever the state and
\* whichever client class it is called on.
C14_UnsubscribeAbsentIsNoOp ==
  \A arg \in SubscribeArgs :
    /\ arg.isArray /\ \A i \in 1..Len(arg.items) : ~InvalidId(arg.items[i])
    /\ Range(arg.items) \cap Range(assetIds) = {}
    => ThisUnsubscribe(Client, arg) = Client

\* non-array, or an array with a non-string or blank id at some position
Malformed(arg) ==
  ~arg.isArray \/ \E i \in 1..Len(arg.items) : InvalidId(arg.items[i])

\* C15: subscribe and unsubscribe called with malformed arguments throw a
\* TypeError and do nothing else: ledger, transports and everything sent or
\* published are as before the call, for both client classes and also when
\* valid ids precede the invalid one.
C15_MalformedThrowsFirst ==
  \A arg \in SubscribeArgs :
    Malformed(arg) =>
      \A c \in {Subscribe(Client, arg), Unsubscribe(Client, arg),
                 UserSubscribe(Client, arg), UserUnsubscribe(Client, arg)} :
        c = [Client EXCEPT !.exc = "TypeError"]

\* connected, and a call whose first id is valid and new to the ledger and
\* whose second id is not valid
C15_Witness ==
  /\ state = "connected" /\ ws # 0 /\ sock[ws].readyState = "OPEN"
  /\ assetIds # <<>>
  /\ \E arg \in SubscribeArgs :
       /\ Len(arg.items) = 2
       /\ ~InvalidId(arg.items[1]) /\ arg.items[1] \notin Range(assetIds)
       /\ InvalidId(arg.items[2])
       /\ Subscribe(Client, arg).exc = "TypeError"

\* what the transports and the timers can make the client do in this state,
\* connect(), send() and the heartbeat included, with listeners that only
\* observe
Transients ==
  {AfterOpen(w, NoHook) : w \in {v \in TransportIds : CanOpen(v)}}
    \cup {AfterClose(w, NoHook) : w \in {v \in TransportIds : CanClose(v)}}
    \cup {AfterError(w, NoHook) : w \in {v \in TransportIds : CanFail(v)}}
    \cup {AfterConnectionTimer(t, NoHook) : t \in connectionTimers}
    \cup {AfterReconnectTimer(NoHook, throws) :
            throws \in {b \in BOOLEAN : reconnectTimer}}
    \cup {AfterLeakedReconnectTimer(NoHook, throws) :
            throws \in {b \in BOOLEAN : leakedReconnectTimers > 0}}
    \cup {Connect(Client, throws) : throws \in BOOLEAN}
    \cup {Send(Client, data) : data \in SendData}
    \cup {HeartbeatTick(Client)}

\* C16: transport open, close and error, connection timeout, reconnect
\* timers, retry exhaustion, connect(), send() and the heartbeat leave the
\* ledger as it is; disconnect() empties it.
C16_LedgerSurvives ==
  /\ \A c \in Transients : c.assetIds = assetIds
  /\ Disconnect(Client).assetIds = <<>>

\* a non-empty ledger and a transport whose close uses up the retry budget
C16_Witness ==
  /\ assetIds # <<>>
  /\ \E w \in TransportIds :
       /\ CanClose(w)
       /\ ErrorEv("maxRetries") \in Range(AfterClose(w, NoHook).emitted)
       /\ AfterClose(w, NoHook).state = "disconnected"
       /\ AfterClose(w, NoHook).assetIds = assetIds

\* C17: emit never throws, and when the registered listeners only return
\* or throw, it invokes every one of them once, in registration order, and
\* reports each exception.
C17_EmitReachesEveryListener ==
  \A m \in {EmitterEmit(Emitter)} :
    /\ m.exc = "none"
    /\ (\A e \in Range(em.listeners) : e.cb \in {"quiet", "throws"})
       => /\ m.invoked = em.listeners
          /\ m.errors = Len(SelectSeq(em.listeners, LAMBDA e : e.cb = "throws"))

\* a throwing listener registered before others, one of them a once() one
C17_Witness ==
  /\ Len(em.listeners) = MaxListeners
  /\ \A e \in Range(em.listeners) : e.cb \in {"quiet", "throws"}
  /\ em.listeners[1].cb = "throws"
  /\ em.listeners[Len(em.listeners)].cb = "quiet"
  /\ \E e \in Range(em.listeners) : e.once # 0

\* C18: a callback registered with once() is invoked at most once, and not
\* at all after the function once() returned has been called.
C18_OnceAtMostOnce ==
  \A k \in OnceIds : em.calls[k] <= 1 /\ em.late[k] = 0

\* every handler that can run in this state, with every listener the
\* application may have registered
Handled ==
  {Connect(Start(h), throws) : h \in Hooks(ConnectEvents), throws \in BOOLEAN}
    \cup {Disconnect(Start(h)) : h \in Hooks(DisconnectEvents)}
    \cup {AfterOpen(w, h) :
            w \in {v \in TransportIds : CanOpen(v)}, h \in Hooks(OpenEvents)}
    \cup {AfterClose(w, h) :
            w \in {v \in TransportIds : CanClose(v)}, h \in Hooks(CloseEvents)}
    \cup {AfterError(w, h) :
            w \in {v \in TransportIds : CanFail(v)}, h \in Hooks(ErrorEvents)}
    \cup {AfterConnectionTimer(t, h) :
            t \in connectionTimers, h \in Hooks(ErrorEvents)}
    \cup {AfterReconnectTimer(h, throws) :
            h \in Hooks(ConnectEvents),
            throws \in {b \in BOOLEAN : reconnectTimer}}
    \cup {AfterLeakedReconnectTimer(h, throws) :
            h \in Hooks(ConnectEvents),
            throws \in {b \in BOOLEAN : leakedReconnectTimers > 0}}
    \cup {ThisSubscribe(Client, arg) : arg \in SubscribeArgs}
    \cup {ThisUnsubscribe(Client, arg) : arg \in SubscribeArgs}
    \cup {Send(Client, data) : data \in SendData}
    \cup {HeartbeatTick(Client)}

\* C19: the stateChange events a handler publishes form a chain from the
\* state before the handler to the state after it: the first event's
\* previousState is the state before, each event's previousState is the
\* state of the event before it, no event has state = previousState, and
\* the last event's state is the state after (no event: same state).
C19_StateChangeChain ==
  \A c \in Handled :
    \A q \in {Published(c, "stateChange")} :
      /\ \A i \in 1..Len(q) :
           /\ q[i].state # q[i].prev
           /\ q[i].prev = IF i = 1 THEN state ELSE q[i - 1].state
      /\ c.state = IF q = <<>> THEN state ELSE q[Len(q)].state

\* connected, and a close during which a listener calls disconnect(): the
\* handler changes the state twice
C19_Witness ==
  /\ state = "connected"
  /\ \E w \in TransportIds, h \in Hooks(CloseEvents) :
       /\ CanClose(w)
       /\ Len(Published(AfterClose(w, h), "stateChange")) = 2

\* the state changes the handlers that can run in this state make
Transitions ==
  UNION {{<<e.prev, e.state>> : e \in Range(Published(c, "stateChange"))} :
           c \in Handled}

\* the changes of state among the edges of the state-machine table
TableEdges ==
  {<<"disconnected", "connecting">>, <<"connecting", "connected">>,
   <<"connecting", "disconnected">>, <<"connected", "disconnected">>,
   <<"connected", "reconnecting">>, <<"reconnecting", "connected">>,
   <<"reconnecting", "disconnected">>}

ExtraEdges ==
  {<<"reconnecting", "connecting">>, <<"connecting", "reconnecting">>,
   <<"disconnected", "connected">>, <<"connected", "connecting">>}

Heard(c, name) == SelectSeq(c.heard, LAMBDA e : e.name = name)

\* C21: a stateChange listener receives the state changes of a handler in
\* the order in which they were made, also when another listener calls
\* disconnect() from inside its stateChange callback.
C21_ListenersHearInOrder ==
  \A c \in Handled : Heard(c, "stateChange") = Published(c, "stateChange")

\* the connection timeout of attempt t is pending and its transport has
\* not opened
TimesOut(t) ==
  /\ t \in connectionTimers
  /\ sock[t].readyState = "CONNECTING" /\ sock[t].promise = "pending"

\* C22: when the connection timeout of an attempt whose transport has not
\* opened elapses, the callback publishes exactly one error event, the
\* timeout error, and rejects the promise of that attempt, whatever an
\* error listener does.
C22_TimeoutRejectsOnce ==
  \A t \in TransportIds, h \in Hooks(ErrorEvents) :
    TimesOut(t) =>
      \A c \in {AfterConnectionTimer(t, h)} :
        /\ Published(c, "error") = <<ErrorEv("timeout")>>
        /\ SelectSeq(c.log, LAMBDA x : x.step = "reject") = <<Step("reject", "")>>
        /\ h = NoHook => c.sock[t].promise = "rejected"

\* connecting, with the timeout of the held transport pending
C22_Witness ==
  /\ state = "connecting" /\ ws # 0 /\ connectionTimer = ws
  /\ TimesOut(ws)
  /\ AfterConnectionTimer(ws, NoHook).sock[ws].promise = "rejected"

\* ws.onclose of transport w run on the client a callback has left behind
CloseAfter(c, w) == OnClose([c EXCEPT !.sock[w] = Dead(@, "CLOSED")], w)

\* C23: when the connection timeout of an attempt whose transport has not
\* opened elapses, that transport is closing afterwards (so it can no
\* longer open), and once its close event is delivered the state is
\* `disconnected'.
C23_TimeoutSettles ==
  \A t \in TransportIds :
    TimesOut(t) =>
      \A c \in {AfterConnectionTimer(t, NoHook)} :
        /\ c.sock[t].readyState = "CLOSING"
        /\ CloseAfter(c, t).state = "disconnected"

\* C24: at most one connection timeout and at most one reconnect timer are
\* pending, each the one its field refers to (the heartbeat interval is
\* always cleared before it is set, so there is never more than one).
C24_OneTimerPerKind ==
  /\ connectionTimers \subseteq {connectionTimer}
  /\ leakedReconnectTimers = 0

\* C25: a heartbeat tick in a state other than `connected' changes nothing
\* (nothing sent, no error), a tick sends at most the probe, and once
\* disconnect() has been called no tick sends a probe for as long as
\* connect() is not called again.
C25_HeartbeatOnlyWhenConnected ==
  \A c \in {HeartbeatTick(Client)} :
    /\ c.exc = "none"
    /\ state # "connected" => c = Client
    /\ \A m \in Range(c.sent) : m.msg = Serialize(StringData("ping"))
    /\ stopped # "no" => c.sent = <<>>

\* the fields of the client that a handler may change
Frame(c) ==
  [state |-> c.state, ws |-> c.ws, reconnectAttempts |-> c.reconnectAttempts,
   isIntentionalClose |-> c.isIntentionalClose, assetIds |-> c.assetIds,
   timers |-> Timers(c)]

\* C26: an error event of a transport, with listeners that only observe,
\* publishes exactly one event, the error, and leaves state, transport
\* handle, retry counter, intentional-close flag, ledger and all timers as
\* they were; nothing is sent and no transport is constructed.
C26_ErrorChangesNothing ==
  \A w \in TransportIds :
    CanFail(w) =>
      \A c \in {AfterError(w, NoHook)} :
        /\ c.emitted = <<ErrorEv("WebSocket error")>>
        /\ Frame(c) = Frame(Client)
        /\ c.sent = <<>> /\ c.constructed = 0 /\ c.exc = "none"

\* connected with the heartbeat armed and a non-empty ledger, and the held
\* transport signals an error
C26_Witness ==
  /\ state = "connected" /\ heartbeatTimer /\ assetIds # <<>>
  /\ ws # 0 /\ CanFail(ws)
  /\ Published(AfterError(ws, NoHook), "error") # <<>>

\* C27: for every text a transport delivers, whatever the callbacks
\* registered and whatever a rawMessage listener does, the rawMessage event
\* carrying the text is published before anything else happens, the
\* channel handler is then called, with the decoded value if the text is
\* JSON and with the text itself otherwise, and no exception leaves the
\* transport callback.
C27_InboundHandled ==
  LET Expected(text) ==
        CASE text = BookText -> Value("object", "book", "")
          [] text = "[]" -> Value("object", "", "")
          [] text = "42" -> Value("number", "", "42")
          [] text = "null" -> Value("null", "", "")
          [] text = "\"hi\"" -> Value("string", "", "hi")
          [] OTHER -> Value("string", "", text)
  IN
  \A w \in TransportIds, text \in Texts, h \in Hooks(On({"rawMessage"})) :
    CanDeliver(w) =>
      \A c \in {AfterMessage(w, text, h)} :
        /\ c.log[1] = Step("emit", "rawMessage")
        /\ c.emitted[1] = RawMessageEv(text)
        /\ c.received # <<>> /\ c.received[1] = Expected(text)
        /\ ~JsonParse(text).ok => c.received = <<Value("string", "", text)>>
        /\ c.exc = "none"

\* a book event is delivered while a callback that throws is registered for
\* it: the callback is called and what it throws is logged
C27_Witness ==
  /\ ws # 0 /\ CanDeliver(ws)
  /\ "throws" \in Range(eventCallbacks["book"])
  /\ \E c \in {AfterMessage(ws, BookText, NoHook)} :
       /\ Step("logger.error", "") \in Range(c.log)
       /\ c.received = <<Value("object", "book", "")>>

\* C28: the retry counter stays between 0 and maxReconnectAttempts and is 0
\* while the state is `connected'; an open event of a transport leaves it
\* at 0; a close event publishes at most one `reconnecting' event, whose
\* attempt number is the counter after the increment (the counter the
\* handler ends with, unless a listener of that very event acted), and with
\* listeners that only observe the counter goes up by exactly one when the
\* event is published and stays as it was otherwise.
C28_RetryCounter ==
  /\ reconnectAttempts \in 0..options.maxReconnectAttempts
  /\ state = "connected" => reconnectAttempts = 0
  /\ \A w \in TransportIds, h \in Hooks(OpenEvents) :
       CanOpen(w) => AfterOpen(w, h).reconnectAttempts = 0
  /\ \A w \in TransportIds, h \in Hooks(CloseEvents) :
       CanClose(w) =>
         \A c \in {AfterClose(w, h)} :
           \A evs \in {Published(c, "reconnecting")} :
             /\ Len(evs) <= 1
             /\ \A i \in 1..Len(evs) :
                  /\ evs[i].attempt \in 1..options.maxReconnectAttempts
                  /\ h.on # "reconnecting" =>
                       evs[i].attempt = c.reconnectAttempts
                  /\ h = NoHook => evs[i].attempt = reconnectAttempts + 1
             /\ (h = NoHook /\ evs = <<>>) =>
                  c.reconnectAttempts = reconnectAttempts

\* one retry has been counted, and the close of a transport publishes
\* attempt 2
C28_Witness ==
  /\ reconnectAttempts = 1
  /\ \E w \in TransportIds :
       /\ CanClose(w)
       /\ Published(AfterClose(w, NoHook), "reconnecting") = <<ReconnectingEv(2)>>

\* C29: the delay computed for attempt n with jitter j is
\* reconnectDelay * 2^(n-1) + j where that does not exceed
\* maxReconnectDelay, and maxReconnectDelay otherwise; it never exceeds
\* maxReconnectDelay; reconnectDelay * 2^(n-1) does not decrease as n grows;
\* and with the defaults 1000 and 30000 the delay is 30000 from the attempt
\* on at which 1000 * 2^(n-1) reaches 30000 (the sixth).
C29_DelayCapped ==
  backoff.attempt >= 1 =>
    \A rd \in {backoff.reconnectDelay}, cap \in {backoff.maxReconnectDelay},
       n \in {backoff.attempt}, d \in {backoff.delay} :
      \A base \in {rd * (2 ^ (n - 1))} :
        /\ base + backoff.jitter <= cap => d = base + backoff.jitter
        /\ base + backoff.jitter > cap => d = cap
        /\ d <= cap
        /\ \A m \in 1..n : rd * (2 ^ (m - 1)) <= base
        /\ (rd = 1000 /\ cap = 30000) =>
             /\ n >= 6 <=> base >= 30000
             /\ base >= 30000 => d = 30000
             /\ n <= 5 => d = base + backoff.jitter /\ d < 30000

\* the defaults, the sixth attempt: 1000 * 2^5 = 32000 is cut to 30000
C29_Witness ==
  /\ backoff.reconnectDelay = 1000 /\ backoff.maxReconnectDelay = 30000
  /\ backoff.attempt = 6 /\ backoff.jitter = 999 /\ backoff.delay = 30000

\* C30: when the constructor of the transport throws inside connect(), the
\* promise connect() returned is rejected, one `error' event carrying what
\* was thrown is published, no connection timeout is pending afterwards,
\* no transport was constructed and the transport handle is the one held
\* before the call (none, with listeners that only observe and no
\* reconnect under way).
C30_ConstructorThrows ==
  \A h \in Hooks(ConnectEvents) :
    state \notin {"connecting", "connected"} =>
      \A c \in {Connect(Start(h), TRUE)} :
        /\ c.rejected
        /\ Published(c, "error") = <<ErrorEv("construct")>>
        /\ c.connectionTimer = 0 /\ c.connectionTimers = {}
        /\ c.constructed = 0
        /\ c.ws \in {0, ws}

\* C31: disconnect() called again right after disconnect(), whatever the
\* state the first call was made in and whatever listeners are registered,
\* leaves state, transport handle, counter, flag, ledger, timers, callbacks
\* and every transport as the first call left them, publishes nothing and
\* throws nothing; so does disconnect() in the state a fresh client is in.
C31_DisconnectIdempotent ==
  \A h \in Hooks(DisconnectEvents) :
    \A c1 \in {Disconnect(Client)} :
      \A c2 \in {Disconnect([Start(h) EXCEPT
                               !.state = c1.state, !.ws = c1.ws,
                               !.sock = c1.sock,
                               !.reconnectAttempts = c1.reconnectAttempts,
                               !.reconnectTimer = c1.reconnectTimer,
                               !.leakedReconnectTimers = c1.leakedReconnectTimers,
                               !.connectionTimer = c1.connectionTimer,
                               !.connectionTimers = c1.connectionTimers,
                               !.heartbeatTimer = c1.heartbeatTimer,
                               !.isIntentionalClose = c1.isIntentionalClose,
                               !.assetIds = c1.assetIds,
                               !.eventCallbacks = c1.eventCallbacks])} :
        /\ c1.state = "disconnected"
        /\ Frame(c2) = Frame(c1)
        /\ c2.sock = c1.sock /\ c2.eventCallbacks = c1.eventCallbacks
        /\ c2.emitted = <<>> /\ c2.sent = <<>> /\ c2.exc = "none"

\* disconnect() is called twice on a connected client whose heartbeat runs:
\* the first call closes the open transport
C31_Witness ==
  /\ state = "connected" /\ ws # 0 /\ sock[ws].readyState = "OPEN"
  /\ heartbeatTimer
  /\ Disconnect(Client).sock[ws].readyState = "CLOSING"
  /\ Published(Disconnect(Client), "stateChange") # <<>>

\* C32: whenever the state is `disconnected', connect() constructs a new
\* transport and the state becomes `connecting'; and with autoReconnect on,
\* when that transport closes before it opened, a reconnect is scheduled as
\* attempt 1, with the whole budget ahead.
C32_FreshCycle ==
  state = "disconnected" =>
    \A c \in {Connect(Client, FALSE)} :
      ~c.overflow =>
        /\ c.constructed = 1 /\ c.state = "connecting"
        /\ options.autoReconnect =>
             Published(CloseAfter(c, c.ws), "reconnecting") = <<ReconnectingEv(1)>>

\* C33: between handlers the heartbeat timer is armed exactly when the state
\* is `connected'.
C33_HeartbeatIffConnected == heartbeatTimer <=> state = "connected"

\* C34: in a dispatch that no listener re-enters, only listeners that were
\* registered when the dispatch began are invoked, and every one of them
\* that is still registered when it ends was invoked exactly once.
C34_DispatchOverSnapshot ==
  (\A i \in 1..Len(em.listeners) : em.listeners[i].cb # "emits") =>
    \A m \in {EmitterEmit(Emitter)} :
      /\ \A i \in 1..Len(m.invoked) : m.invoked[i] \in Range(em.listeners)
      /\ \A e \in Range(em.listeners) :
           (m.map # 0 /\ Has(m.sets[m.map], e)) =>
             Cardinality({i \in 1..Len(m.invoked) : m.invoked[i] = e}) = 1

\* C35: while the promise of a connection attempt is pending, each event
\* that ends the attempt settles it: the open event of its transport
\* resolves it, and its timeout, the close event of its transport and
\* disconnect() reject it.
C35_ConnectSettles ==
  \A w \in TransportIds :
    sock[w].promise = "pending" =>
      /\ CanOpen(w) =>
           Step("resolve", "") \in Range(AfterOpen(w, NoHook).log)
      /\ w \in connectionTimers =>
           Step("reject", "") \in Range(AfterConnectionTimer(w, NoHook).log)
      /\ CanClose(w) =>
           Step("reject", "") \in Range(AfterClose(w, NoHook).log)
      /\ w = ws => Step("reject", "") \in Range(Disconnect(Client).log)

\* C36: between handlers, whenever the state is `connecting' some transport
\* has its handlers attached and is either opening with its connection
\* timeout pending or closing (its close event is to come); and neither
\* connect() nor the reconnect timer leaves the state `connecting' when the
\* constructor of the transport throws.
C36_ConnectingNotStuck ==
  /\ state = "connecting" =>
       \E w \in TransportIds :
         /\ sock[w].attached
         /\ \/ sock[w].readyState = "CONNECTING" /\ w \in connectionTimers
            \/ sock[w].readyState = "CLOSING"
  /\ state \notin {"connecting", "connected"} =>
       Connect(Client, TRUE).state # "connecting"
  /\ reconnectTimer => AfterReconnectTimer(NoHook, TRUE).state # "connecting"

\* C37: between handlers at most one transport that is opening or open has
\* its handlers attached, and a handler constructs a transport only when no
\* such transport exists.
C37_OneLiveTransport ==
  /\ Cardinality({w \in TransportIds :
                    sock[w].attached /\ sock[w].readyState \in {"CONNECTING", "OPEN"}}) <= 1
  /\ \A c \in Transients :
       c.constructed > 0 =>
         \A w \in TransportIds :
           ~(sock[w].attached /\ sock[w].readyState \in {"CONNECTING", "OPEN"})

\* C38: a close event publishes `disconnected' only for a transport whose
\* open event published `connected' (its promise is resolved), and then
\* exactly once; and disconnect() called while such a transport is held
\* publishes `disconnected' exactly once as well.
C38_ConnectedDisconnectedAlternate ==
  /\ \A w \in TransportIds :
       CanClose(w) =>
         Published(AfterClose(w, NoHook), "disconnected") =
           IF sock[w].promise = "resolved" THEN <<Ev("disconnected")>> ELSE <<>>
  /\ (ws # 0 /\ sock[ws].attached /\ sock[ws].promise = "resolved") =>
       Published(Disconnect(Client), "disconnected") = <<Ev("disconnected")>>

\* C39: between handlers, whenever the state is `connected' the client
\* holds a transport and that transport is open; and whatever a listener
\* sends while a close event is handled is handed to an open transport.
C39_ConnectedMeansOpen ==
  /\ state = "connected" => ws # 0 /\ sock[ws].readyState = "OPEN"
  /\ \A w \in TransportIds, h \in Hooks(CloseEvents) :
       CanClose(w) =>
         \A c \in {AfterClose(w, h)} :
           /\ c.exc # "InvalidState"
           /\ Len(SelectSeq(c.log, LAMBDA x : x.step = "send")) = Len(c.sent)

\* C40: every text a transport delivers makes exactly one call of the
\* channel handler, also when a callback and the logger that reports it
\* throw while a decoded event is handled.
C40_HandlerCalledOnce ==
  \A w \in TransportIds, text \in Texts, h \in Hooks(On({"rawMessage"})) :
    CanDeliver(w) => Len(AfterMessage(w, text, h).received) = 1
====
